---- MODULE Spec2Model ----
(***************************************************************************)
(* Model of PluginsExtension (@remirror/core, builtins/plugins-extension). *)
(* The extension collects the plugins of the other extensions in onCreate, *)
(* keeps a published plugin list that addPlugins and replacePlugin change, *)
(* and re-applies that list to the live view state in                      *)
(* reconfigureStatePlugins.                                                *)
(***************************************************************************)
EXTENDS Integers, Sequences, FiniteSets, TLC

\* ------------------------------------------------------------------ bounds
\* Longest published plugin list addPlugins may build.
MaxLen == 3
\* Longest extension sequence handed to onCreate.
MaxExts == 3

\* ------------------------------------------------------ ManagerPhase (enum)
ManagerPhaseNone == 0
ManagerPhaseCreate == 1
ManagerPhaseInitialize == 2
ManagerPhaseEditorView == 3
ManagerPhaseRuntime == 4

\* ErrorConstant.MANAGER_PHASE_ERROR, and the other ways a call can end.
MANAGER_PHASE_ERROR == "MANAGER_PHASE_ERROR"
INVARIANT_ERROR == "INVARIANT_ERROR"
NO_VIEW_ERROR == "NO_VIEW_ERROR"
HOOK_ERROR == "HOOK_ERROR"
NoError == "none"

\* Faulty variant of PluginKey: the key is made without the extension's name.
PluginKeyUnnamed(name, count) == [name |-> "plugin", n |-> count]

\* ---------------------------------------------------------------- values
\* A PluginKey: `new PluginKey(name)` numbers the keys made for one name.
NoKey == [name |-> "", n |-> 0]
PluginKey(name, count) == [name |-> name, n |-> count]
\* A key an extension author put into the spec returned by createPlugin.
OwnKey == [name |-> "own", n |-> 0]

\* Plugin objects. Two plugin objects are the same object iff the records are
\* equal (reference identity).
NoPlugin == [kind |-> "none", key |-> NoKey, id |-> 0]
\* new Plugin(pluginSpec): the plugin carries the key of the spec; `ext` is the
\* position of the extension it was made for (every `new` is a fresh object).
Plugin(pluginSpec, ext) == [kind |-> "created", key |-> pluginSpec.key, id |-> ext]
\* A plugin object returned by createExternalPlugins of extension `ext`.
ExternalPlugin(ext, j) == [kind |-> "external", key |-> NoKey, id |-> (10 * ext) + j]
\* Plugin objects other extensions hold and pass to addPlugins / replacePlugin.
PoolPlugin(j) == [kind |-> "pool", key |-> NoKey, id |-> j]
Pool == {PoolPlugin(1), PoolPlugin(2)}

\* Plugin state values held in an editor state; `undefined` when the state
\* holds no field for the key.
StateValues == {"s0", "s1"}
InitialStateValue == "s0"
Undefined == "undefined"
\* What a call that throws, or a call of a void function, hands back.
NoValue == "no value"

\* Identifiers accepted by getPluginState: an extension name or a constructor.
ByName(name) == [axis |-> "name", of |-> name]
ByConstructor(ctor) == [axis |-> "constructor", of |-> ctor]

ExtensionNames == <<"A", "B", "C", "D", "E">>
UnknownName == "Z"

\* The shapes an extension can have: which hooks it declares, what they
\* return, its exclude option, and which hook (if any) throws.
ExtensionShape(createPlugin, specKey, createExternalPlugins, externals, exclude, throws) ==
    [createPlugin |-> createPlugin, specKey |-> specKey,
     createExternalPlugins |-> createExternalPlugins, externals |-> externals,
     exclude |-> exclude, throws |-> throws]

ExtensionShapes ==
    { ExtensionShape(FALSE, NoKey, FALSE, 0, FALSE, "none"),   \* no hook
      ExtensionShape(TRUE, NoKey, FALSE, 0, FALSE, "none"),    \* createPlugin
      ExtensionShape(FALSE, NoKey, TRUE, 2, FALSE, "none"),    \* external [x, y]
      ExtensionShape(TRUE, OwnKey, TRUE, 1, FALSE, "none"),    \* both, keyed spec
      ExtensionShape(TRUE, NoKey, TRUE, 1, TRUE, "none"),      \* both, excluded
      ExtensionShape(TRUE, NoKey, FALSE, 0, FALSE, "createPlugin"),
      ExtensionShape(TRUE, NoKey, TRUE, 1, FALSE, "createExternalPlugins") }

\* The extension at position i of the list: its name and constructor belong
\* to the position (names are unique within a manager), its shape is chosen.
Extension(i, shape) ==
    [name |-> ExtensionNames[i], constructor |-> ExtensionNames[i], shape |-> shape]

VARIABLES
    extensions,        \* the extension list the manager was built with
    excludePlugins,    \* managerSettings.exclude?.plugins
    phase,             \* store.phase (ManagerPhase)
    aborted,           \* manager construction threw
    plugins,           \* this.plugins
    extensionPlugins,  \* this.extensionPlugins
    pluginKeys,        \* this.pluginKeys : name -> key
    stateGetters,      \* this.stateGetters : identifier -> getter (its key)
    attached,          \* per extension: the fields attached to the instance
    hookCalls,         \* the hooks invoked so far: <<position, hook>>
    keyCount,          \* keys made so far, per name (PluginKey numbering)
    managerStore,      \* keys set with setStoreKey: key -> value
    extensionStore,    \* names set with setExtensionStore
    view,              \* store.view: [attached, state]
    call,              \* the last call made and how it ended
    reconfiguredWith,  \* history: the list published when the view state
                       \* was last reconfigured
    passed             \* history: the plugins callers have passed to
                       \* addPlugins and as replacePlugin's replacement

vars == <<extensions, excludePlugins, phase, aborted, plugins, extensionPlugins,
          pluginKeys, stateGetters, attached, hookCalls, keyCount, managerStore,
          extensionStore, view, call, reconfiguredWith, passed>>

\* ---------------------------------------------------------------- helpers
\* map[key] = value on a JavaScript object / Map.
Put(map, key, value) ==
    [k \in (DOMAIN map) \cup {key} |-> IF k = key THEN value ELSE map[k]]
EmptyMap == [k \in {} |-> NoKey]

\* The plugin objects createExternalPlugins of extension i returns, in order.
ExternalPlugins(i) ==
    [j \in 1..extensions[i].shape.externals |-> ExternalPlugin(i, j)]

\* Faulty variant of MergeSpec: { key, ...spec }, a key in the spec wins.
MergeSpecKeepingSpecKey(spec, key) == IF spec.key # NoKey THEN spec ELSE [spec EXCEPT !.key = key]

\* { ...extension.createPlugin(), key }: the allocated key replaces the spec's.
MergeSpec(spec, key) == [spec EXCEPT !.key = key]
\* The spec extension i returns from createPlugin.
CreatePluginReturn(i) == [key |-> extensions[i].shape.specKey]

\* The fields the manager attaches to an extension instance.
NoFields == [pluginKey |-> NoKey, getPluginState |-> NoKey, plugin |-> NoPlugin]

\* ------------------------------------------------------ the host editor
\* EditorState: the plugin list it was configured with and one state field
\* per keyed plugin that has state (the plugins made by `new Plugin(spec)`).
FieldKeys(list) ==
    { list[j].key : j \in { m \in 1..Len(list) : list[m].kind = "created" } }
\* EditorState.create({ plugins })
CreateState(list) ==
    [plugins |-> list, fields |-> [k \in FieldKeys(list) |-> InitialStateValue]]
\* state.reconfigure({ plugins }): fields already present keep their value.
Reconfigure(state, list) ==
    [plugins |-> list,
     fields |-> [k \in FieldKeys(list) |->
                    IF k \in DOMAIN state.fields THEN state.fields[k]
                    ELSE InitialStateValue]]
\* getPluginState(key, state) of @remirror/core-utils: key.getState(state).
GetPluginState(key, state) ==
    IF key \in DOMAIN state.fields THEN state.fields[key] ELSE Undefined
NoState == [plugins |-> <<>>, fields |-> EmptyMap]
NoView == [attached |-> FALSE, state |-> NoState]

\* ------------------------------------------------------------ collector
\* createEachExtensionPlugins(extension) for the extension at position i,
\* applied to the fields of `this` gathered in the record c. c.thrown is set
\* when a hook throws; nothing after the throw runs.
\* Faulty variant of SkipsExtension: the extension's own exclude option is not
\* consulted.
SkipsExtensionIgnoringOption(i) ==
    \/ (~extensions[i].shape.createPlugin /\ ~extensions[i].shape.createExternalPlugins)
    \/ excludePlugins

\* Faulty variant of SkipsExtension: the manager's exclude setting is not consulted.
SkipsExtensionIgnoringManager(i) ==
    \/ (~extensions[i].shape.createPlugin /\ ~extensions[i].shape.createExternalPlugins)
    \/ extensions[i].shape.exclude

SkipsExtension(i) ==
    \/ (~extensions[i].shape.createPlugin /\ ~extensions[i].shape.createExternalPlugins)
    \/ excludePlugins
    \/ extensions[i].shape.exclude

\* Faulty variant of CreateCustomPlugin: the getter is registered under the name only.
CreateCustomPluginByNameOnly(c, i, key) ==
    LET e == extensions[i]
        registered ==
            [c EXCEPT !.pluginKeys = Put(@, e.name, key),
                      !.attached[i].pluginKey = key,
                      !.attached[i].getPluginState = key,
                      !.stateGetters = Put(@, ByName(e.name), key),
                      !.hookCalls = @ \cup {<<i, "createPlugin">>}]
    IN  IF e.shape.throws = "createPlugin"
        THEN [registered EXCEPT !.thrown = TRUE]
        ELSE [registered EXCEPT !.extensionPlugins =
                 Append(@, Plugin(MergeSpec(CreatePluginReturn(i), key), i))]

CreateCustomPlugin(c, i, key) ==
    LET e == extensions[i]
        registered ==
            [c EXCEPT !.pluginKeys = Put(@, e.name, key),
                      !.attached[i].pluginKey = key,
                      !.attached[i].getPluginState = key,
                      !.stateGetters =
                          Put(Put(@, ByName(e.name), key), ByConstructor(e.constructor), key),
                      !.hookCalls = @ \cup {<<i, "createPlugin">>}]
    IN  IF e.shape.throws = "createPlugin"
        THEN [registered EXCEPT !.thrown = TRUE]
        ELSE [registered EXCEPT !.extensionPlugins =
                 Append(@, Plugin(MergeSpec(CreatePluginReturn(i), key), i))]

\* Faulty variant of AddExternalPlugins: the external plugins are put in front.
AddExternalPluginsInFront(c, i) ==
    LET e == extensions[i]
        called == [c EXCEPT !.hookCalls = @ \cup {<<i, "createExternalPlugins">>}]
    IN  IF e.shape.throws = "createExternalPlugins"
        THEN [called EXCEPT !.thrown = TRUE]
        ELSE [called EXCEPT !.extensionPlugins = ExternalPlugins(i) \o @]

AddExternalPlugins(c, i) ==
    LET e == extensions[i]
        called == [c EXCEPT !.hookCalls = @ \cup {<<i, "createExternalPlugins">>}]
    IN  IF e.shape.throws = "createExternalPlugins"
        THEN [called EXCEPT !.thrown = TRUE]
        ELSE [called EXCEPT !.extensionPlugins = @ \o ExternalPlugins(i)]

CreateEachExtensionPlugins(c, i) ==
    IF SkipsExtension(i) THEN c
    ELSE
        LET e == extensions[i]
            key == PluginKey(e.name, c.keyCount[e.name])
            c1 == [c EXCEPT !.keyCount[e.name] = @ + 1]
            c2 == IF e.shape.createPlugin THEN CreateCustomPlugin(c1, i, key) ELSE c1
        IN  IF c2.thrown THEN c2
            ELSE IF e.shape.createExternalPlugins THEN AddExternalPlugins(c2, i)
            ELSE c2

\* Faulty variant of Collect: a throwing hook is caught and the loop goes on
\* with the next extension.
RECURSIVE CollectPastThrow(_, _)
CollectPastThrow(c, i) ==
    IF i > Len(extensions) THEN c
    ELSE LET next == CreateEachExtensionPlugins([c EXCEPT !.thrown = FALSE], i)
         IN  CollectPastThrow([next EXCEPT !.thrown = c.thrown \/ next.thrown], i + 1)

\* for (const extension of extensions) this.createEachExtensionPlugins(extension)
RECURSIVE Collect(_, _)
Collect(c, i) ==
    IF i > Len(extensions) \/ c.thrown THEN c
    ELSE Collect(CreateEachExtensionPlugins(c, i), i + 1)

\* ------------------------------------------------------ the manager store
\* store.setStoreKey(key, value); the value of 'plugins' is kept, the other
\* keys hold references to fields of `this` and are kept by name.
SetStoreKey(store, key) == [store EXCEPT !.keys = @ \cup {key}]
SetStorePlugins(store, list) == [keys |-> store.keys \cup {"plugins"}, plugins |-> list]
EmptyStore == [keys |-> {}, plugins |-> <<>>]

\* updateExtensionStore(): the names it sets on the extension store.
UpdateExtensionStore ==
    {"addPlugins", "replacePlugin", "reconfigureStatePlugins"}

\* ------------------------------------------------------------ the calls
Call(op, args, error, value) ==
    [op |-> op, args |-> args, error |-> error, value |-> value]
NoCall == Call("none", <<>>, NoError, NoValue)

\* Faulty variant of AddPluginsList: the new plugins are put in front of the list.
AddPluginsListPrepending(list, ps) == ps \o list

\* this.plugins = [...this.plugins, ...plugins]
AddPluginsList(list, ps) == list \o ps

\* this.plugins = this.plugins.map(
\*     (plugin) => (plugin === original ? replacement : original))
ReplacePluginList(list, original, replacement) ==
    [j \in 1..Len(list) |-> IF list[j] = original THEN replacement ELSE original]

\* Faulty variant of PhaseAllowsReconfigure: the threshold is one phase too low.
PhaseAllowsReconfigureFromInitialize == phase >= ManagerPhaseInitialize

\* invariant(this.store.phase >= ManagerPhase.EditorView, ...)
PhaseAllowsReconfigure == phase >= ManagerPhaseEditorView

\* store.getStoreKey('view'): the manager asserts that the value is available
\* and fails with the manager-phase error before the view is attached.
GetStoreKeyViewError == IF view.attached THEN NoError ELSE MANAGER_PHASE_ERROR

\* Faulty variant of GetterError: the getter reads store.view.state directly
\* and dereferences a view that does not exist yet.
GetterErrorReadingViewField(key) == IF view.attached THEN NoError ELSE NO_VIEW_ERROR

\* The getter made for a key: getPluginState(key, getStoreKey('view').state).
\* It reaches the view through getStoreKey, whose outcome is the call's.
GetterError(key) == GetStoreKeyViewError
\* Faulty variant of GetterValue: the getter reads a state captured when the
\* plugins were configured instead of the view's current state.
GetterValueFromCapturedState(key) ==
    IF view.attached THEN GetPluginState(key, CreateState(view.state.plugins)) ELSE NoValue

GetterValue(key) ==
    IF view.attached THEN GetPluginState(key, view.state) ELSE NoValue

\* Faulty variant of GetStateByNameResult: the invariant is missing and a getter that
\* does not exist yields undefined.
GetStateByNameResultUnchecked(identifier) ==
    IF identifier \in DOMAIN stateGetters
    THEN Call("getPluginState", <<identifier>>,
              GetterError(stateGetters[identifier]),
              GetterValue(stateGetters[identifier]))
    ELSE Call("getPluginState", <<identifier>>, NoError, Undefined)

\* getStateByName(identifier): the getter registered for the identifier is
\* called; invariant(stateGetter, { message: 'No plugin exists ...' }) throws
\* when there is none.
GetStateByNameResult(identifier) ==
    IF identifier \in DOMAIN stateGetters
    THEN Call("getPluginState", <<identifier>>,
              GetterError(stateGetters[identifier]),
              GetterValue(stateGetters[identifier]))
    ELSE Call("getPluginState", <<identifier>>, INVARIANT_ERROR, NoValue)

\* Faulty variant of ReconfiguredState: the collected plugins are applied instead of
\* the published list.
ReconfiguredStateFromExtensionPlugins == Reconfigure(view.state, extensionPlugins)

\* const newState = state.reconfigure({ plugins: this.plugins })
ReconfiguredState == Reconfigure(view.state, plugins)

\* ----------------------------------------------------------------- Init
ExtensionLists(shapes, maxLen) ==
    UNION { { [i \in 1..n |-> Extension(i, pick[i])] : pick \in [1..n -> shapes] } :
            n \in 0..maxLen }

InitWith(exts, exclude) ==
    /\ extensions = exts
    /\ excludePlugins = exclude
    /\ phase = ManagerPhaseNone
    /\ aborted = FALSE
    /\ plugins = <<>>
    /\ extensionPlugins = <<>>
    /\ pluginKeys = EmptyMap
    /\ stateGetters = EmptyMap
    /\ attached = [i \in 1..Len(exts) |-> NoFields]
    /\ hookCalls = {}
    /\ keyCount = [n \in {ExtensionNames[i] : i \in 1..Len(ExtensionNames)} |-> 0]
    /\ managerStore = EmptyStore
    /\ extensionStore = {}
    /\ view = NoView
    /\ call = NoCall
    /\ reconfiguredWith = [done |-> FALSE, list |-> <<>>]

\* ---------------------------------------------------------------- actions
\* The manager moves through its phases; the view (with a state made from the
\* published plugins) is attached on entering ManagerPhase.EditorView.
AdvancePhase ==
    /\ ~aborted
    /\ phase < ManagerPhaseRuntime
    /\ phase = ManagerPhaseCreate => "plugins" \in managerStore.keys
    /\ phase' = phase + 1
    /\ view' = IF phase' = ManagerPhaseEditorView
               THEN [attached |-> TRUE, state |-> CreateState(managerStore.plugins)]
               ELSE view
    /\ call' = Call("advancePhase", <<>>, NoError, NoValue)
    /\ UNCHANGED <<extensions, excludePlugins, aborted, plugins, extensionPlugins,
                   pluginKeys, stateGetters, attached, hookCalls, keyCount,
                   managerStore, extensionStore, reconfiguredWith>>
    /\ UNCHANGED passed

\* onCreate(extensions), called once by the manager in the Create phase.
OnCreate ==
    /\ phase = ManagerPhaseCreate
    /\ "plugins" \notin managerStore.keys
    /\ LET c == Collect([pluginKeys |-> pluginKeys, stateGetters |-> stateGetters,
                         extensionPlugins |-> extensionPlugins, attached |-> attached,
                         hookCalls |-> hookCalls, keyCount |-> keyCount,
                         thrown |-> FALSE], 1)
           updated == SetStorePlugins(managerStore, <<>>)
           list == AddPluginsList(plugins, c.extensionPlugins)
       IN  /\ pluginKeys' = c.pluginKeys
           /\ stateGetters' = c.stateGetters
           /\ extensionPlugins' = c.extensionPlugins
           /\ attached' = c.attached
           /\ hookCalls' = c.hookCalls
           /\ keyCount' = c.keyCount
           /\ aborted' = c.thrown
           /\ IF c.thrown
              THEN /\ plugins' = plugins
                   /\ managerStore' = updated
                   /\ extensionStore' = extensionStore \cup UpdateExtensionStore
                   /\ call' = Call("onCreate", <<>>, HOOK_ERROR, NoValue)
              ELSE /\ plugins' = list
                   /\ managerStore' =
                        SetStorePlugins(
                            SetStoreKey(SetStoreKey(updated, "pluginKeys"), "getPluginState"),
                            list)
                   /\ extensionStore' =
                        extensionStore \cup UpdateExtensionStore \cup {"getPluginState"}
                   /\ call' = Call("onCreate", <<>>, NoError, NoValue)
    /\ UNCHANGED <<extensions, excludePlugins, phase, view, reconfiguredWith>>
    /\ UNCHANGED passed

\* The plugin objects a caller can name: the pool and the collected plugins.
Universe == Pool \cup { extensionPlugins[j] : j \in 1..Len(extensionPlugins) }
ArgumentLists == UNION { [1..n -> Pool] : n \in 0..MaxLen }

\* Faulty variant of AddPlugins: the new list is written into the live view state too.
AddPluginsUpdatingView(ps) ==
    /\ ~aborted
    /\ "addPlugins" \in extensionStore
    /\ Len(plugins) + Len(ps) <= MaxLen
    /\ plugins' = AddPluginsList(plugins, ps)
    /\ managerStore' = SetStorePlugins(managerStore, plugins')
    /\ call' = Call("addPlugins", ps, NoError, NoValue)
    /\ passed' = IF passed.recording
                 THEN [passed EXCEPT !.addPlugins = @ \cup {ps[j] : j \in 1..Len(ps)}]
                 ELSE passed
    /\ view' = IF view.attached THEN [view EXCEPT !.state.plugins = plugins'] ELSE view
    /\ UNCHANGED <<extensions, excludePlugins, phase, aborted, extensionPlugins,
                   pluginKeys, stateGetters, attached, hookCalls, keyCount,
                   extensionStore, reconfiguredWith>>

\* store.addPlugins(...ps), called by any extension.
AddPlugins(ps) ==
    /\ ~aborted
    /\ "addPlugins" \in extensionStore
    /\ Len(plugins) + Len(ps) <= MaxLen
    /\ plugins' = AddPluginsList(plugins, ps)
    /\ managerStore' = SetStorePlugins(managerStore, plugins')
    /\ call' = Call("addPlugins", ps, NoError, NoValue)
    /\ passed' = IF passed.recording
                 THEN [passed EXCEPT !.addPlugins = @ \cup {ps[j] : j \in 1..Len(ps)}]
                 ELSE passed
    /\ UNCHANGED <<extensions, excludePlugins, phase, aborted, extensionPlugins,
                   pluginKeys, stateGetters, attached, hookCalls, keyCount,
                   extensionStore, view, reconfiguredWith>>

\* Faulty variant of ReplacePlugin: the key registered for the replaced plugin
\* is dropped from pluginKeys.
ReplacePluginDroppingKey(original, replacement) ==
    /\ ~aborted
    /\ "replacePlugin" \in extensionStore
    /\ plugins' = ReplacePluginList(plugins, original, replacement)
    /\ managerStore' = SetStorePlugins(managerStore, plugins')
    /\ call' = Call("replacePlugin", <<original, replacement>>, NoError, NoValue)
    /\ passed' = IF passed.recording
                 THEN [passed EXCEPT !.replacement = @ \cup {replacement}]
                 ELSE passed
    /\ pluginKeys' = [n \in {m \in DOMAIN pluginKeys : pluginKeys[m] # original.key}
                        |-> pluginKeys[n]]
    /\ UNCHANGED <<extensions, excludePlugins, phase, aborted, extensionPlugins,
                   stateGetters, attached, hookCalls, keyCount,
                   extensionStore, view, reconfiguredWith>>

\* store.replacePlugin(original, replacement)
ReplacePlugin(original, replacement) ==
    /\ ~aborted
    /\ "replacePlugin" \in extensionStore
    /\ plugins' = ReplacePluginList(plugins, original, replacement)
    /\ managerStore' = SetStorePlugins(managerStore, plugins')
    /\ call' = Call("replacePlugin", <<original, replacement>>, NoError, NoValue)
    /\ passed' = IF passed.recording
                 THEN [passed EXCEPT !.replacement = @ \cup {replacement}]
                 ELSE passed
    /\ UNCHANGED <<extensions, excludePlugins, phase, aborted, extensionPlugins,
                   pluginKeys, stateGetters, attached, hookCalls, keyCount,
                   extensionStore, view, reconfiguredWith>>

\* store.reconfigureStatePlugins()
ReconfigureStatePlugins ==
    /\ ~aborted
    /\ "reconfigureStatePlugins" \in extensionStore
    /\ IF PhaseAllowsReconfigure
       THEN /\ view' = [view EXCEPT !.state = ReconfiguredState]
            /\ reconfiguredWith' = [done |-> TRUE, list |-> managerStore.plugins]
            /\ call' = Call("reconfigureStatePlugins", <<>>, NoError, NoValue)
       ELSE /\ view' = view
            /\ reconfiguredWith' = reconfiguredWith
            /\ call' = Call("reconfigureStatePlugins", <<>>, MANAGER_PHASE_ERROR, NoValue)
    /\ UNCHANGED <<extensions, excludePlugins, phase, aborted, plugins, extensionPlugins,
                   pluginKeys, stateGetters, attached, hookCalls, keyCount,
                   managerStore, extensionStore>>
    /\ UNCHANGED passed

\* The identifiers a caller can ask for: every extension's name and
\* constructor, and one that belongs to no extension.
Identifiers ==
    { ByName(n) : n \in {extensions[i].name : i \in 1..Len(extensions)} \cup {UnknownName} }
    \cup { ByConstructor(extensions[i].constructor) : i \in 1..Len(extensions) }

\* getStateByName(identifier): store.getPluginState / extension store.
GetStateByName(identifier) ==
    /\ ~aborted
    /\ "getPluginState" \in extensionStore
    /\ call' = GetStateByNameResult(identifier)
    /\ UNCHANGED <<extensions, excludePlugins, phase, aborted, plugins, extensionPlugins,
                   pluginKeys, stateGetters, attached, hookCalls, keyCount,
                   managerStore, extensionStore, view, reconfiguredWith>>
    /\ UNCHANGED passed

\* extension.getPluginState(), the getter attached to the extension at i.
ExtensionGetPluginState(i) ==
    /\ ~aborted
    /\ "plugins" \in managerStore.keys
    /\ attached[i].getPluginState # NoKey
    /\ call' = Call("extension.getPluginState", <<i>>,
                    GetterError(attached[i].getPluginState),
                    GetterValue(attached[i].getPluginState))
    /\ UNCHANGED <<extensions, excludePlugins, phase, aborted, plugins, extensionPlugins,
                   pluginKeys, stateGetters, attached, hookCalls, keyCount,
                   managerStore, extensionStore, view, reconfiguredWith>>
    /\ UNCHANGED passed

\* A transaction is applied and view.updateState installs the new state: the
\* plugin list stays, one plugin's state changes.
DispatchTransaction(key, value) ==
    /\ ~aborted
    /\ view.attached
    /\ key \in DOMAIN view.state.fields
    /\ view.state.fields[key] # value
    /\ view' = [view EXCEPT !.state.fields[key] = value]
    /\ call' = Call("dispatch", <<>>, NoError, NoValue)
    /\ UNCHANGED <<extensions, excludePlugins, phase, aborted, plugins, extensionPlugins,
                   pluginKeys, stateGetters, attached, hookCalls, keyCount,
                   managerStore, extensionStore, reconfiguredWith>>
    /\ UNCHANGED passed

AllKeys ==
    { PluginKey(ExtensionNames[i], 0) : i \in 1..Len(ExtensionNames) }

\* ------------------------------------------------------- specifications
\* The whole extension, for managers built with at most one other extension.
StoreShapes ==
    { ExtensionShape(FALSE, NoKey, FALSE, 0, FALSE, "none"),
      ExtensionShape(TRUE, NoKey, FALSE, 0, FALSE, "none"),
      ExtensionShape(TRUE, NoKey, TRUE, 1, FALSE, "none") }
StoreExtensions == {<<>>} \cup { <<Extension(1, shape)>> : shape \in StoreShapes }

\* The history of passed plugins is recorded under SpecProvenance only.
NothingPassed(recording) ==
    [recording |-> recording, addPlugins |-> {}, replacement |-> {}]

Init ==
    /\ \E exts \in StoreExtensions : InitWith(exts, FALSE)
    /\ passed = NothingPassed(FALSE)

Next ==
    \/ AdvancePhase
    \/ OnCreate
    \/ \E ps \in ArgumentLists : AddPlugins(ps)
    \/ \E original \in Universe, replacement \in Pool : ReplacePlugin(original, replacement)
    \/ ReconfigureStatePlugins
    \/ \E identifier \in Identifiers : GetStateByName(identifier)
    \/ \E i \in 1..Len(extensions) : ExtensionGetPluginState(i)
    \/ \E key \in AllKeys, value \in StateValues : DispatchTransaction(key, value)

Spec == Init /\ [][Next]_vars

\* The collector and the state getters, for every extension list of up to
\* MaxExts extensions and both values of the manager's exclude setting; the
\* published list is changed by onCreate only.
InitCollector ==
    /\ \E exts \in ExtensionLists(ExtensionShapes, MaxExts), exclude \in BOOLEAN :
          InitWith(exts, exclude)
    /\ passed = NothingPassed(FALSE)

NextCollector ==
    \/ AdvancePhase
    \/ OnCreate
    \/ ReconfigureStatePlugins
    \/ \E identifier \in Identifiers : GetStateByName(identifier)
    \/ \E i \in 1..Len(extensions) : ExtensionGetPluginState(i)
    \/ \E key \in AllKeys, value \in StateValues : DispatchTransaction(key, value)

SpecCollector == InitCollector /\ [][NextCollector]_vars

\* The published list and where its elements came from: onCreate, addPlugins
\* and replacePlugin, with every passed plugin recorded.
InitProvenance ==
    /\ \E exts \in StoreExtensions : InitWith(exts, FALSE)
    /\ passed = NothingPassed(TRUE)

NextProvenance ==
    \/ AdvancePhase
    \/ OnCreate
    \/ \E ps \in ArgumentLists : AddPlugins(ps)
    \/ \E original \in Universe, replacement \in Pool : ReplacePlugin(original, replacement)

SpecProvenance == InitProvenance /\ [][NextProvenance]_vars

\* ================================================================ claims
Elements(list) == { list[j] : j \in 1..Len(list) }

\* C1: replacePlugin(original, replacement) with original in the published
\* list L yields a list of the same length in which every position that held
\* original holds replacement and every other position holds what it held.
C1_ReplaceSwapsOnlyMatches ==
    [][ (call'.op = "replacePlugin" /\ call'.args[1] \in Elements(plugins))
        => /\ Len(plugins') = Len(plugins)
           /\ \A j \in 1..Len(plugins) :
                 plugins'[j] = IF plugins[j] = call'.args[1]
                               THEN call'.args[2] ELSE plugins[j]
           /\ managerStore'.plugins = plugins' ]_vars

\* C2: replacePlugin(original, replacement) with original not in the published
\* list L raises no error and leaves the published list equal to L.
C2_ReplaceAbsentIsNoOp ==
    [][ (call'.op = "replacePlugin" /\ call'.args[1] \notin Elements(plugins))
        => /\ call'.error = NoError
           /\ plugins' = plugins
           /\ managerStore'.plugins = managerStore.plugins ]_vars

\* C3: reconfigureStatePlugins called below ManagerPhase.EditorView fails with
\* the manager-phase error and changes neither the view's state nor the
\* published list nor the registries.
C3_ReconfigureBeforeViewFails ==
    [][ (call'.op = "reconfigureStatePlugins" /\ phase < ManagerPhaseEditorView)
        => /\ call'.error = MANAGER_PHASE_ERROR
           /\ view' = view
           /\ plugins' = plugins
           /\ managerStore' = managerStore
           /\ pluginKeys' = pluginKeys
           /\ stateGetters' = stateGetters ]_vars

C3_Witness ==
    /\ call.op = "reconfigureStatePlugins"
    /\ call.error = MANAGER_PHASE_ERROR
    /\ phase = ManagerPhaseInitialize
    /\ Len(plugins) >= 2
    /\ ~view.attached

\* C4: a successful reconfigureStatePlugins leaves the view's state with
\* exactly the list published at the moment of the call, in the same order.
C4_ReconfigureAppliesPublishedList ==
    [][ (call'.op = "reconfigureStatePlugins" /\ call'.error = NoError)
        => /\ phase >= ManagerPhaseEditorView
           /\ view'.state.plugins = managerStore.plugins
           /\ managerStore'.plugins = managerStore.plugins ]_vars

C4_Witness ==
    /\ call.op = "reconfigureStatePlugins"
    /\ call.error = NoError
    /\ view.state.plugins = managerStore.plugins
    /\ Len(managerStore.plugins) >= 2
    /\ managerStore.plugins # extensionPlugins
    /\ \E j \in 1..Len(plugins) : plugins[j] \notin Pool

\* C5: addPlugins and replacePlugin never change the live view state; once the
\* view state has been reconfigured its plugin set stays the list published
\* at the last successful reconfigure, whatever was added or replaced since.
C5_ViewKeepsReconfiguredList ==
    [][ /\ call'.op \in {"addPlugins", "replacePlugin"} => view' = view
        /\ reconfiguredWith'.done => view'.state.plugins = reconfiguredWith'.list ]_vars

C5_Witness ==
    /\ reconfiguredWith.done
    /\ call.op = "replacePlugin"
    /\ view.state.plugins = reconfiguredWith.list
    /\ view.state.plugins # managerStore.plugins
    /\ Len(view.state.plugins) >= 2

\* C6: addPlugins(p1..pn) succeeds in every phase and republishes under the
\* store key 'plugins' the previous list followed by p1..pn in argument order.
C6_AddPluginsAppends ==
    [][ call'.op = "addPlugins"
        => /\ call'.error = NoError
           /\ "plugins" \in managerStore'.keys
           /\ Len(managerStore'.plugins) = Len(managerStore.plugins) + Len(call'.args)
           /\ \A j \in 1..Len(managerStore'.plugins) :
                 managerStore'.plugins[j] =
                     IF j <= Len(managerStore.plugins)
                     THEN managerStore.plugins[j]
                     ELSE call'.args[j - Len(managerStore.plugins)]
           /\ plugins' = managerStore'.plugins ]_vars

C6_Witness ==
    /\ call.op = "addPlugins"
    /\ call.args = <<PoolPlugin(1)>>
    /\ managerStore.plugins = <<PoolPlugin(1), PoolPlugin(2), PoolPlugin(1)>>
    /\ phase = ManagerPhaseCreate

\* The state stored under the plugin key of extension i in the view's state.
StoredState(i) ==
    LET key == pluginKeys[extensions[i].name]
    IN  IF key \in DOMAIN view.state.fields THEN view.state.fields[key] ELSE Undefined

\* C7: for every extension E that declares createPlugin and is not excluded,
\* at or after the view phase getPluginState(E.name), getPluginState(
\* E.constructor) and E.getPluginState() return the same value, the state
\* stored under E's plugin key in the view's current state.
C7_GettersAgree ==
    \A i \in 1..Len(extensions) :
        ( /\ extensions[i].shape.createPlugin
          /\ ~extensions[i].shape.exclude
          /\ ~excludePlugins
          /\ phase >= ManagerPhaseEditorView )
        => /\ extensions[i].name \in DOMAIN pluginKeys
           /\ GetStateByNameResult(ByName(extensions[i].name))
                = Call("getPluginState", <<ByName(extensions[i].name)>>,
                       NoError, StoredState(i))
           /\ GetStateByNameResult(ByConstructor(extensions[i].constructor))
                = Call("getPluginState", <<ByConstructor(extensions[i].constructor)>>,
                       NoError, StoredState(i))
           /\ attached[i].getPluginState # NoKey
           /\ GetterError(attached[i].getPluginState) = NoError
           /\ GetterValue(attached[i].getPluginState) = StoredState(i)
           /\ ( /\ call.op = "getPluginState"
                /\ call.args[1] \in {ByName(extensions[i].name),
                                     ByConstructor(extensions[i].constructor)} )
                => (call.error = NoError /\ call.value = StoredState(i))
           /\ (call.op = "extension.getPluginState" /\ call.args[1] = i)
                => (call.error = NoError /\ call.value = StoredState(i))

C7_Witness ==
    \E i \in 1..Len(extensions) :
        /\ extensions[i].shape.createPlugin
        /\ phase >= ManagerPhaseEditorView
        /\ call.op = "getPluginState"
        /\ call.args[1] = ByConstructor(extensions[i].constructor)
        /\ call.value = "s1"
        /\ Len(extensions) >= 2

\* Extension i had its createPlugin plugin made and collected.
Materialized(i) ==
    \E j \in 1..Len(extensionPlugins) :
        extensionPlugins[j].kind = "created" /\ extensionPlugins[j].id = i
IdentifiesMaterialized(identifier) ==
    \E i \in 1..Len(extensions) :
        /\ Materialized(i)
        /\ identifier \in {ByName(extensions[i].name),
                           ByConstructor(extensions[i].constructor)}

\* C8: getPluginState(identifier) fails with the not-found invariant error and
\* returns nothing for every identifier that is not the name or constructor of
\* an extension whose createPlugin plugin was materialized.
C8_UnknownIdentifierFails ==
    (call.op = "getPluginState" /\ ~IdentifiesMaterialized(call.args[1]))
        => (call.error = INVARIANT_ERROR /\ call.value = NoValue)

C8_Witness ==
    \E i \in 1..Len(extensions) :
        /\ extensions[i].shape.createExternalPlugins
        /\ ~extensions[i].shape.createPlugin
        /\ ~extensions[i].shape.exclude
        /\ ~excludePlugins
        /\ call.op = "getPluginState"
        /\ call.args[1] = ByConstructor(extensions[i].constructor)
        /\ call.error = INVARIANT_ERROR
        /\ \E k \in 1..Len(extensions) : Materialized(k)

\* Where each collected plugin comes from: <<kind, id>> per position.
Origins(list) == [j \in 1..Len(list) |-> <<list[j].kind, list[j].id>>]
\* The origins the ordering guarantee asks for, from extension i onwards.
RECURSIVE ExpectedOrigins(_)
ExpectedOrigins(i) ==
    IF i > Len(extensions) THEN <<>>
    ELSE (IF extensions[i].shape.createPlugin THEN << <<"created", i>> >> ELSE <<>>)
         \o (IF extensions[i].shape.createExternalPlugins
             THEN [j \in 1..extensions[i].shape.externals |->
                      <<"external", ExternalPlugin(i, j).id>>]
             ELSE <<>>)
         \o ExpectedOrigins(i + 1)

NoExclusion ==
    ~excludePlugins /\ \A i \in 1..Len(extensions) : ~extensions[i].shape.exclude
OnCreateCompleted == "pluginKeys" \in managerStore.keys

\* C9: with no exclusion set, onCreate yields an extension-plugin list in the
\* input extension order: nothing for an extension without hooks, one plugin
\* for createPlugin, every external plugin in order, createPlugin's first.
C9_CollectorKeepsOrder ==
    (OnCreateCompleted /\ NoExclusion)
        => Origins(extensionPlugins) = ExpectedOrigins(1)

C9_Witness ==
    /\ OnCreateCompleted
    /\ NoExclusion
    /\ Len(extensions) = 3
    /\ ~extensions[1].shape.createPlugin /\ ~extensions[1].shape.createExternalPlugins
    /\ extensions[2].shape.createPlugin /\ ~extensions[2].shape.createExternalPlugins
    /\ ~extensions[3].shape.createPlugin /\ extensions[3].shape.createExternalPlugins
    /\ Origins(extensionPlugins)
         = << <<"created", 2>>, <<"external", ExternalPlugin(3, 1).id>>,
              <<"external", ExternalPlugin(3, 2).id>> >>

\* C10: when the manager setting excludes plugins, onCreate leaves the
\* extension-plugin list, the published list and pluginKeys empty and invokes
\* no createPlugin or createExternalPlugins hook.
C10_ManagerExclusion ==
    excludePlugins
        => /\ extensionPlugins = <<>>
           /\ plugins = <<>>
           /\ managerStore.plugins = <<>>
           /\ DOMAIN pluginKeys = {}
           /\ hookCalls = {}

C10_Witness ==
    /\ excludePlugins
    /\ OnCreateCompleted
    /\ \E i \in 1..Len(extensions) :
          extensions[i].shape.createPlugin /\ ~extensions[i].shape.exclude
    /\ \E i \in 1..Len(extensions) : extensions[i].shape.createExternalPlugins
    /\ \E i \in 1..Len(extensions) : extensions[i].shape.throws # "none"
    /\ extensionPlugins = <<>>


\* The origins expected when the extensions whose own option excludes plugins
\* are left out of the input, from extension i onwards.
RECURSIVE ExpectedOriginsWithout(_)
ExpectedOriginsWithout(i) ==
    IF i > Len(extensions) THEN <<>>
    ELSE (IF extensions[i].shape.exclude THEN <<>>
          ELSE (IF extensions[i].shape.createPlugin THEN << <<"created", i>> >> ELSE <<>>)
               \o (IF extensions[i].shape.createExternalPlugins
                   THEN [j \in 1..extensions[i].shape.externals |->
                            <<"external", ExternalPlugin(i, j).id>>]
                   ELSE <<>>))
         \o ExpectedOriginsWithout(i + 1)

\* C11: with manager-level exclusion off, an extension whose own
\* exclude.plugins option is set contributes no plugin, gets no plugin key and
\* no state getter, has none of its hooks invoked, and the other extensions
\* are processed as if it were absent from the input.
C11_ExtensionExclusion ==
    (OnCreateCompleted /\ ~excludePlugins)
        => /\ \A i \in 1..Len(extensions) :
                extensions[i].shape.exclude
                => /\ \A j \in 1..Len(extensionPlugins) :
                         /\ ~(extensionPlugins[j].kind = "created"
                              /\ extensionPlugins[j].id = i)
                         /\ extensionPlugins[j] \notin
                               { ExternalPlugin(i, k) : k \in 1..extensions[i].shape.externals }
                   /\ extensions[i].name \notin DOMAIN pluginKeys
                   /\ ByName(extensions[i].name) \notin DOMAIN stateGetters
                   /\ ByConstructor(extensions[i].constructor) \notin DOMAIN stateGetters
                   /\ attached[i] = NoFields
                   /\ \A h \in hookCalls : h[1] # i
           /\ Origins(extensionPlugins) = ExpectedOriginsWithout(1)
           /\ DOMAIN pluginKeys =
                 { extensions[i].name :
                     i \in { k \in 1..Len(extensions) :
                               extensions[k].shape.createPlugin
                               /\ ~extensions[k].shape.exclude } }

C11_Witness ==
    /\ OnCreateCompleted
    /\ ~excludePlugins
    /\ Len(extensions) = 3
    /\ extensions[1].shape.createPlugin /\ ~extensions[1].shape.exclude
    /\ extensions[2].shape.exclude
       /\ extensions[2].shape.createPlugin /\ extensions[2].shape.createExternalPlugins
    /\ extensions[3].shape.createExternalPlugins /\ ~extensions[3].shape.exclude
    /\ Len(extensionPlugins) >= 2


\* The positions of the extensions that declare createPlugin.
DeclaresCreatePlugin == { i \in 1..Len(extensions) : extensions[i].shape.createPlugin }
\* ... and whose plugins are excluded neither by the manager nor by themselves.
CollectsCreatePlugin ==
    { i \in DeclaresCreatePlugin : ~excludePlugins /\ ~extensions[i].shape.exclude }

\* C12 (as stated): after onCreate pluginKeys has exactly one entry per
\* extension that declares createPlugin, none for any other extension, and the
\* keys of distinct extensions are distinct.
C12_KeyPerDeclaringExtension ==
    OnCreateCompleted
        => /\ DOMAIN pluginKeys = { extensions[i].name : i \in DeclaresCreatePlugin }
           /\ \A i, k \in DeclaresCreatePlugin :
                 i # k => pluginKeys[extensions[i].name] # pluginKeys[extensions[k].name]

\* C12 (amended): after onCreate pluginKeys has exactly one entry per
\* extension that declares createPlugin and whose plugins are not excluded (by
\* the manager setting or by its own option), none for any other extension,
\* and the keys of distinct extensions are distinct.
C12_KeyPerCollectedExtension ==
    OnCreateCompleted
        => /\ DOMAIN pluginKeys = { extensions[i].name : i \in CollectsCreatePlugin }
           /\ \A i \in CollectsCreatePlugin : pluginKeys[extensions[i].name] # NoKey
           /\ \A i, k \in CollectsCreatePlugin :
                 i # k => pluginKeys[extensions[i].name] # pluginKeys[extensions[k].name]

C12_Witness ==
    /\ OnCreateCompleted
    /\ Cardinality(CollectsCreatePlugin) = 2
    /\ Cardinality(DOMAIN pluginKeys) = 2
    /\ \E i \in 1..Len(extensions) :
          /\ extensions[i].shape.createExternalPlugins
          /\ ~extensions[i].shape.createPlugin
          /\ extensions[i].name \notin DOMAIN pluginKeys


\* The plugins collected for extension i from its createPlugin result.
CreatedPlugins(i) ==
    { extensionPlugins[j] :
        j \in { m \in 1..Len(extensionPlugins) :
                  extensionPlugins[m].kind = "created" /\ extensionPlugins[m].id = i } }

\* C13: for every non-excluded extension E that declares createPlugin, after
\* onCreate the plugin made for E carries the key pluginKeys[E.name], which is
\* also E.pluginKey, even when the spec returned by createPlugin has a key.
C13_AllocatedKeyWins ==
    OnCreateCompleted
        => \A i \in CollectsCreatePlugin :
              /\ Cardinality(CreatedPlugins(i)) = 1
              /\ \A p \in CreatedPlugins(i) :
                    /\ p.key = pluginKeys[extensions[i].name]
                    /\ p.key = attached[i].pluginKey
                    /\ p.key.name = extensions[i].name

C13_Witness ==
    /\ OnCreateCompleted
    /\ \E i \in CollectsCreatePlugin :
          /\ CreatePluginReturn(i).key = OwnKey
          /\ \E p \in CreatedPlugins(i) :
                p.key = pluginKeys[extensions[i].name] /\ p.key # OwnKey


StoredStateIn(state, i) ==
    LET key == pluginKeys[extensions[i].name]
    IN  IF key \in DOMAIN state.fields THEN state.fields[key] ELSE Undefined

\* C15: a state getter never returns a cached value: every call of the getter
\* of extension E returns the plugin state stored under E's key in the view's
\* state at the moment of that call, whatever updates came before.
C15_GetterReadsLiveState ==
    [][ \A i \in 1..Len(extensions) :
           /\ (call'.op = "extension.getPluginState" /\ call'.args[1] = i
               /\ call'.error = NoError)
                 => /\ call'.value = StoredStateIn(view.state, i)
                    /\ view' = view
           /\ (call'.op = "getPluginState" /\ call'.error = NoError
               /\ call'.args[1] \in {ByName(extensions[i].name),
                                     ByConstructor(extensions[i].constructor)})
                 => /\ call'.value = StoredStateIn(view.state, i)
                    /\ view' = view ]_vars

C15_Witness ==
    /\ call.op = "extension.getPluginState"
    /\ call.error = NoError
    /\ call.value = "s1"
    /\ reconfiguredWith.done
    /\ phase = ManagerPhaseRuntime


\* C17: after the Create phase every non-excluded extension that declares
\* createPlugin has pluginKey, getPluginState and plugin attached, plugin
\* being the plugin object made from its createPlugin result and collected.
C17_ThreeFieldsAttached ==
    OnCreateCompleted
        => \A i \in CollectsCreatePlugin :
              /\ attached[i].pluginKey # NoKey
              /\ attached[i].getPluginState # NoKey
              /\ attached[i].plugin \in CreatedPlugins(i)

\* The extensions that come after the first hook that throws.
Throws(i) ==
    /\ ~excludePlugins
    /\ ~extensions[i].shape.exclude
    /\ extensions[i].shape.throws # "none"
AfterThrow ==
    { i \in 1..Len(extensions) : \E k \in 1..(i - 1) : Throws(k) }

\* C18: if a createPlugin or createExternalPlugins hook throws during
\* onCreate, the exception leaves onCreate: no later extension is processed,
\* the published list stays empty, and pluginKeys and getPluginState are not
\* published to the manager store.
C18_HookThrowAborts ==
    /\ (\E i \in 1..Len(extensions) : Throws(i)) /\ "plugins" \in managerStore.keys
           => /\ aborted
              /\ call = Call("onCreate", <<>>, HOOK_ERROR, NoValue)
    /\ aborted
           => /\ plugins = <<>>
              /\ managerStore.plugins = <<>>
              /\ "pluginKeys" \notin managerStore.keys
              /\ "getPluginState" \notin managerStore.keys
              /\ "getPluginState" \notin extensionStore
              /\ \A i \in AfterThrow :
                    /\ \A h \in hookCalls : h[1] # i
                    /\ attached[i] = NoFields
                    /\ extensions[i].name \notin DOMAIN pluginKeys
                    /\ CreatedPlugins(i) = {}

C18_Witness ==
    /\ aborted
    /\ Len(extensions) = 3
    /\ extensions[1].shape.createPlugin /\ ~Throws(1) /\ ~extensions[1].shape.exclude
    /\ Throws(2)
    /\ extensions[3].shape.createPlugin /\ ~extensions[3].shape.exclude
    /\ Len(extensionPlugins) >= 1
    /\ managerStore.plugins = <<>>


\* C16: in every state after onCreate has completed, every plugin produced
\* by the collector precedes, in the published list, every plugin that was
\* passed to addPlugins by another extension.
C16_CollectedPrecedeAdded ==
    (OnCreateCompleted /\ passed.recording)
        => \A j, k \in 1..Len(managerStore.plugins) :
              (/\ managerStore.plugins[j] \in Elements(extensionPlugins)
               /\ managerStore.plugins[k] \in passed.addPlugins)
                  => j < k

\* C20: every element of the published list was produced by the collector,
\* passed to addPlugins, or passed as the replacement of a replacePlugin
\* call; no operation inserts any other plugin.
C20_ElementsHaveProvenance ==
    passed.recording
        => Elements(managerStore.plugins)
              \subseteq (Elements(extensionPlugins) \cup passed.addPlugins
                         \cup passed.replacement)


\* C19: the key and state-getter registries are populated by onCreate and
\* never change afterwards: no addPlugins, replacePlugin,
\* reconfigureStatePlugins or getPluginState call adds, removes or rebinds
\* an entry of pluginKeys or of the state-getter registry.
C19_RegistriesFrozen ==
    [][ /\ call'.op # "onCreate"
            => (pluginKeys' = pluginKeys /\ stateGetters' = stateGetters)
        /\ ~OnCreateCompleted /\ call'.op # "onCreate"
            => (pluginKeys' = EmptyMap /\ stateGetters' = EmptyMap) ]_vars

C19_Witness ==
    /\ OnCreateCompleted
    /\ DOMAIN pluginKeys # {}
    /\ DOMAIN stateGetters # {}
    /\ call.op = "replacePlugin"
    /\ call.args[1] \in CreatedPlugins(1)
    /\ phase = ManagerPhaseRuntime
    /\ reconfiguredWith.done

====
